---- MODULE Spec2Model ----
(***************************************************************************)
(* Input-to-action dispatch (editor/src/input/input_mapper.rs) and the     *)
(* rectangle tool's state machine                                          *)
(* (editor/src/viewport_tools/tools/rectangle_tool.rs).                    *)
(*                                                                         *)
(* A Message is a record [enum, variant, payload]; its discriminant        *)
(* (to_discriminant) is the pair <<enum, variant>>, the payload dropped.   *)
(* A KeyStates bit vector is the set of the keys whose bit is set.         *)
(***************************************************************************)
EXTENDS Integers, Sequences, FiniteSets, TLC

VARIABLES
    mapping,    \* InputMapper.mapping, the table built by Mapping::default
    message,    \* the InputMapperMessage handed to InputMapper::process_action
    keys,       \* input.keyboard, the live KeyStates
    required,   \* a KeyStates of required modifiers the subset test is applied to
    actions,    \* the ActionList (advertisement) handed over with the event
    responses,  \* the shared outbound VecDeque<Message>
    ret,        \* what the last call of the operation under study returned
    fsm_state,  \* RectangleTool.fsm_state
    tool_data,  \* RectangleTool.tool_data.data (the Resize scratch data)
    action,     \* the ToolMessage last handed to RectangleTool::process_action
    input,      \* the input context of that call (input.mouse.position)
    prior_state, \* the fsm_state that call was entered in
    layer,      \* a Layer of the document
    call,       \* the name of the Layer method last called on it
    invoked,    \* the calls the last operation made on what it owns (tool data, layer data)
    transforms  \* the transforms stack handed to Layer::render

vars == <<mapping, message, keys, required, actions, responses, ret, fsm_state, tool_data,
          action, input, prior_state, layer, call, invoked, transforms>>

-----------------------------------------------------------------------------
(* Bounds of the model.                                                    *)

\* most keys held at once in a live key state
MaxHeld == 2
\* most discriminants advertised at once
MaxAdv == 2
\* an event or message is processed only into a queue shorter than this
MaxQueue == 3
\* the tool is handed a message only while the queue holds at most this many
MaxPending == 1
\* the largest x coordinate of a mouse position
MaxCoord == 2
\* most elements of a flattened shape path
MaxPath == 3

-----------------------------------------------------------------------------
(* Keys, key states, messages.                                             *)

\* the keys the binding table names, and the enum's UnknownKey
Keys == {
    "UnknownKey", "KeyV", "KeyControl", "KeyShift", "Lmb", "Rmb", "KeyEscape",
    "KeyAlt", "KeyEnter", "KeyF", "KeyM", "KeyE", "KeyL", "KeyP", "KeyY", "KeyI",
    "KeyX", "KeyO", "KeyZ", "KeyA", "KeyDelete", "KeyBackspace", "KeyS", "Mmb", "Key0",
    "KeyPlus", "KeyEquals", "KeyMinus", "Key1", "Key2", "KeyPageUp", "KeyPageDown",
    "KeyN", "KeyTab", "KeyW", "KeyD", "KeyC", "KeyArrowUp", "KeyArrowLeft",
    "KeyArrowRight", "KeyArrowDown", "KeyRightCurlyBracket", "KeyRightBracket",
    "KeyLeftBracket", "KeyLeftCurlyBracket", "Key3"
}

None == [tag |-> "None"]
Some(v) == [tag |-> "Some", value |-> v]

\* InputMapperMessage
KeyDown(key) == [kind |-> "KeyDown", key |-> key]
KeyUp(key) == [kind |-> "KeyUp", key |-> key]
PointerMove == [kind |-> "PointerMove"]
MouseScroll == [kind |-> "MouseScroll"]

Msg(enum, variant, payload) == [enum |-> enum, variant |-> variant, payload |-> payload]

\* Message::to_discriminant: the message's identity without its payload
to_discriminant(m) == <<m.enum, m.variant>>

\* MappingEntry
Entry(trigger, modifiers, act) == [trigger |-> trigger, modifiers |-> modifiers, action |-> act]

\* KeyStates operators: & , ^ , is_empty, ones
BitAnd(a, b) == a \cap b
BitXor(a, b) == (a \ b) \cup (b \ a)
is_empty(a) == a = {}
ones(a) == Cardinality(a)

-----------------------------------------------------------------------------
(* The declared bindings, in declaration order (entry! expands a           *)
(* triggers=[..] binding into PointerMove, then KeyDown and KeyUp of each  *)
(* listed key).                                                            *)

Declared == <<
    Entry(KeyDown("KeyV"), {"KeyControl"}, Msg("DocumentsMessage", "PasteLayers", "{path: vec![], insert_index: -1}")),
    Entry(KeyDown("KeyShift"), {}, Msg("MovementMessage", "EnableSnapping", "")),
    Entry(KeyUp("KeyShift"), {}, Msg("MovementMessage", "DisableSnapping", "")),
    Entry(PointerMove, {}, Msg("SelectMessage", "MouseMove", "")),
    Entry(KeyDown("Lmb"), {}, Msg("SelectMessage", "DragStart", "{add_to_selection: KeyShift}")),
    Entry(KeyUp("Lmb"), {}, Msg("SelectMessage", "DragStop", "")),
    Entry(KeyDown("Rmb"), {}, Msg("SelectMessage", "Abort", "")),
    Entry(KeyDown("KeyEscape"), {}, Msg("SelectMessage", "Abort", "")),
    Entry(KeyDown("Lmb"), {}, Msg("EyedropperMessage", "LeftMouseDown", "")),
    Entry(KeyDown("Rmb"), {}, Msg("EyedropperMessage", "RightMouseDown", "")),
    Entry(KeyDown("Lmb"), {}, Msg("RectangleMessage", "DragStart", "")),
    Entry(KeyUp("Lmb"), {}, Msg("RectangleMessage", "DragStop", "")),
    Entry(KeyDown("Rmb"), {}, Msg("RectangleMessage", "Abort", "")),
    Entry(KeyDown("KeyEscape"), {}, Msg("RectangleMessage", "Abort", "")),
    Entry(PointerMove, {}, Msg("RectangleMessage", "Resize", "{center: KeyAlt, lock_ratio: KeyShift}")),
    Entry(KeyDown("KeyAlt"), {}, Msg("RectangleMessage", "Resize", "{center: KeyAlt, lock_ratio: KeyShift}")),
    Entry(KeyUp("KeyAlt"), {}, Msg("RectangleMessage", "Resize", "{center: KeyAlt, lock_ratio: KeyShift}")),
    Entry(KeyDown("KeyShift"), {}, Msg("RectangleMessage", "Resize", "{center: KeyAlt, lock_ratio: KeyShift}")),
    Entry(KeyUp("KeyShift"), {}, Msg("RectangleMessage", "Resize", "{center: KeyAlt, lock_ratio: KeyShift}")),
    Entry(KeyDown("Lmb"), {}, Msg("EllipseMessage", "DragStart", "")),
    Entry(KeyUp("Lmb"), {}, Msg("EllipseMessage", "DragStop", "")),
    Entry(KeyDown("Rmb"), {}, Msg("EllipseMessage", "Abort", "")),
    Entry(KeyDown("KeyEscape"), {}, Msg("EllipseMessage", "Abort", "")),
    Entry(PointerMove, {}, Msg("EllipseMessage", "Resize", "{center: KeyAlt, lock_ratio: KeyShift}")),
    Entry(KeyDown("KeyAlt"), {}, Msg("EllipseMessage", "Resize", "{center: KeyAlt, lock_ratio: KeyShift}")),
    Entry(KeyUp("KeyAlt"), {}, Msg("EllipseMessage", "Resize", "{center: KeyAlt, lock_ratio: KeyShift}")),
    Entry(KeyDown("KeyShift"), {}, Msg("EllipseMessage", "Resize", "{center: KeyAlt, lock_ratio: KeyShift}")),
    Entry(KeyUp("KeyShift"), {}, Msg("EllipseMessage", "Resize", "{center: KeyAlt, lock_ratio: KeyShift}")),
    Entry(KeyDown("Lmb"), {}, Msg("ShapeMessage", "DragStart", "")),
    Entry(KeyUp("Lmb"), {}, Msg("ShapeMessage", "DragStop", "")),
    Entry(KeyDown("Rmb"), {}, Msg("ShapeMessage", "Abort", "")),
    Entry(KeyDown("KeyEscape"), {}, Msg("ShapeMessage", "Abort", "")),
    Entry(PointerMove, {}, Msg("ShapeMessage", "Resize", "{center: KeyAlt, lock_ratio: KeyShift}")),
    Entry(KeyDown("KeyAlt"), {}, Msg("ShapeMessage", "Resize", "{center: KeyAlt, lock_ratio: KeyShift}")),
    Entry(KeyUp("KeyAlt"), {}, Msg("ShapeMessage", "Resize", "{center: KeyAlt, lock_ratio: KeyShift}")),
    Entry(KeyDown("KeyShift"), {}, Msg("ShapeMessage", "Resize", "{center: KeyAlt, lock_ratio: KeyShift}")),
    Entry(KeyUp("KeyShift"), {}, Msg("ShapeMessage", "Resize", "{center: KeyAlt, lock_ratio: KeyShift}")),
    Entry(KeyDown("Lmb"), {}, Msg("LineMessage", "DragStart", "")),
    Entry(KeyUp("Lmb"), {}, Msg("LineMessage", "DragStop", "")),
    Entry(KeyDown("Rmb"), {}, Msg("LineMessage", "Abort", "")),
    Entry(KeyDown("KeyEscape"), {}, Msg("LineMessage", "Abort", "")),
    Entry(PointerMove, {}, Msg("LineMessage", "Redraw", "{center: KeyAlt, lock_angle: KeyControl, snap_angle: KeyShift}")),
    Entry(KeyDown("KeyAlt"), {}, Msg("LineMessage", "Redraw", "{center: KeyAlt, lock_angle: KeyControl, snap_angle: KeyShift}")),
    Entry(KeyUp("KeyAlt"), {}, Msg("LineMessage", "Redraw", "{center: KeyAlt, lock_angle: KeyControl, snap_angle: KeyShift}")),
    Entry(KeyDown("KeyShift"), {}, Msg("LineMessage", "Redraw", "{center: KeyAlt, lock_angle: KeyControl, snap_angle: KeyShift}")),
    Entry(KeyUp("KeyShift"), {}, Msg("LineMessage", "Redraw", "{center: KeyAlt, lock_angle: KeyControl, snap_angle: KeyShift}")),
    Entry(KeyDown("KeyControl"), {}, Msg("LineMessage", "Redraw", "{center: KeyAlt, lock_angle: KeyControl, snap_angle: KeyShift}")),
    Entry(KeyUp("KeyControl"), {}, Msg("LineMessage", "Redraw", "{center: KeyAlt, lock_angle: KeyControl, snap_angle: KeyShift}")),
    Entry(PointerMove, {}, Msg("PenMessage", "PointerMove", "")),
    Entry(KeyDown("Lmb"), {}, Msg("PenMessage", "DragStart", "")),
    Entry(KeyUp("Lmb"), {}, Msg("PenMessage", "DragStop", "")),
    Entry(KeyDown("Rmb"), {}, Msg("PenMessage", "Confirm", "")),
    Entry(KeyDown("KeyEscape"), {}, Msg("PenMessage", "Confirm", "")),
    Entry(KeyDown("KeyEnter"), {}, Msg("PenMessage", "Confirm", "")),
    Entry(KeyDown("Lmb"), {}, Msg("FillMessage", "MouseDown", "")),
    Entry(KeyDown("KeyF"), {}, Msg("ToolMessage", "SelectTool", "(ToolType::Fill)")),
    Entry(KeyDown("KeyM"), {}, Msg("ToolMessage", "SelectTool", "(ToolType::Rectangle)")),
    Entry(KeyDown("KeyE"), {}, Msg("ToolMessage", "SelectTool", "(ToolType::Ellipse)")),
    Entry(KeyDown("KeyV"), {}, Msg("ToolMessage", "SelectTool", "(ToolType::Select)")),
    Entry(KeyDown("KeyL"), {}, Msg("ToolMessage", "SelectTool", "(ToolType::Line)")),
    Entry(KeyDown("KeyP"), {}, Msg("ToolMessage", "SelectTool", "(ToolType::Pen)")),
    Entry(KeyDown("KeyY"), {}, Msg("ToolMessage", "SelectTool", "(ToolType::Shape)")),
    Entry(KeyDown("KeyI"), {}, Msg("ToolMessage", "SelectTool", "(ToolType::Eyedropper)")),
    Entry(KeyDown("KeyX"), {"KeyShift", "KeyControl"}, Msg("ToolMessage", "ResetColors", "")),
    Entry(KeyDown("KeyX"), {"KeyShift"}, Msg("ToolMessage", "SwapColors", "")),
    Entry(KeyDown("KeyO"), {"KeyControl"}, Msg("FrontendMessage", "OpenDocumentBrowse", "")),
    Entry(KeyDown("KeyZ"), {"KeyControl"}, Msg("DocumentMessage", "Undo", "")),
    Entry(KeyDown("KeyA"), {"KeyControl", "KeyAlt"}, Msg("DocumentMessage", "DeselectAllLayers", "")),
    Entry(KeyDown("KeyA"), {"KeyControl"}, Msg("DocumentMessage", "SelectAllLayers", "")),
    Entry(KeyDown("KeyDelete"), {}, Msg("DocumentMessage", "DeleteSelectedLayers", "")),
    Entry(KeyDown("KeyX"), {}, Msg("DocumentMessage", "DeleteSelectedLayers", "")),
    Entry(KeyDown("KeyBackspace"), {}, Msg("DocumentMessage", "DeleteSelectedLayers", "")),
    Entry(KeyDown("KeyE"), {"KeyControl"}, Msg("DocumentMessage", "ExportDocument", "")),
    Entry(KeyDown("KeyS"), {"KeyControl"}, Msg("DocumentMessage", "SaveDocument", "")),
    Entry(KeyDown("KeyS"), {"KeyControl", "KeyShift"}, Msg("DocumentMessage", "SaveDocument", "")),
    Entry(PointerMove, {}, Msg("MovementMessage", "MouseMove", "")),
    Entry(KeyDown("Mmb"), {"KeyControl"}, Msg("MovementMessage", "RotateCanvasBegin", "{snap:false}")),
    Entry(KeyDown("Mmb"), {"KeyControl", "KeyShift"}, Msg("MovementMessage", "RotateCanvasBegin", "{snap:true}")),
    Entry(KeyDown("Mmb"), {"KeyShift"}, Msg("MovementMessage", "ZoomCanvasBegin", "")),
    Entry(KeyDown("Key0"), {"KeyControl"}, Msg("MovementMessage", "ZoomCanvasToFitAll", "")),
    Entry(KeyDown("Mmb"), {}, Msg("MovementMessage", "TranslateCanvasBegin", "")),
    Entry(KeyUp("Mmb"), {}, Msg("MovementMessage", "TranslateCanvasEnd", "")),
    Entry(KeyDown("KeyPlus"), {"KeyControl"}, Msg("MovementMessage", "IncreaseCanvasZoom", "")),
    Entry(KeyDown("KeyEquals"), {"KeyControl"}, Msg("MovementMessage", "IncreaseCanvasZoom", "")),
    Entry(KeyDown("KeyMinus"), {"KeyControl"}, Msg("MovementMessage", "DecreaseCanvasZoom", "")),
    Entry(KeyDown("Key1"), {"KeyControl"}, Msg("MovementMessage", "SetCanvasZoom", "(1.)")),
    Entry(KeyDown("Key2"), {"KeyControl"}, Msg("MovementMessage", "SetCanvasZoom", "(2.)")),
    Entry(MouseScroll, {"KeyControl"}, Msg("MovementMessage", "WheelCanvasZoom", "")),
    Entry(MouseScroll, {"KeyShift"}, Msg("MovementMessage", "WheelCanvasTranslate", "{use_y_as_x: true}")),
    Entry(MouseScroll, {}, Msg("MovementMessage", "WheelCanvasTranslate", "{use_y_as_x: false}")),
    Entry(KeyDown("KeyPageUp"), {"KeyShift"}, Msg("MovementMessage", "TranslateCanvasByViewportFraction", "(DVec2::new(1., 0.))")),
    Entry(KeyDown("KeyPageDown"), {"KeyShift"}, Msg("MovementMessage", "TranslateCanvasByViewportFraction", "(DVec2::new(-1., 0.))")),
    Entry(KeyDown("KeyPageUp"), {}, Msg("MovementMessage", "TranslateCanvasByViewportFraction", "(DVec2::new(0., 1.))")),
    Entry(KeyDown("KeyPageDown"), {}, Msg("MovementMessage", "TranslateCanvasByViewportFraction", "(DVec2::new(0., -1.))")),
    Entry(KeyDown("KeyN"), {"KeyControl"}, Msg("DocumentsMessage", "NewDocument", "")),
    Entry(KeyDown("KeyTab"), {"KeyControl"}, Msg("DocumentsMessage", "NextDocument", "")),
    Entry(KeyDown("KeyTab"), {"KeyControl", "KeyShift"}, Msg("DocumentsMessage", "PrevDocument", "")),
    Entry(KeyDown("KeyW"), {"KeyControl", "KeyAlt"}, Msg("DocumentsMessage", "CloseAllDocumentsWithConfirmation", "")),
    Entry(KeyDown("KeyW"), {"KeyControl"}, Msg("DocumentsMessage", "CloseActiveDocumentWithConfirmation", "")),
    Entry(KeyDown("KeyD"), {"KeyControl"}, Msg("DocumentMessage", "DuplicateSelectedLayers", "")),
    Entry(KeyDown("KeyC"), {"KeyControl"}, Msg("DocumentsMessage", "CopySelectedLayers", "")),
    Entry(KeyDown("KeyArrowUp"), {"KeyShift", "KeyArrowLeft"}, Msg("DocumentMessage", "NudgeSelectedLayers", "(-10., -10.)")),
    Entry(KeyDown("KeyArrowUp"), {"KeyShift", "KeyArrowRight"}, Msg("DocumentMessage", "NudgeSelectedLayers", "(10., -10.)")),
    Entry(KeyDown("KeyArrowUp"), {"KeyShift"}, Msg("DocumentMessage", "NudgeSelectedLayers", "(0., -10.)")),
    Entry(KeyDown("KeyArrowDown"), {"KeyShift", "KeyArrowLeft"}, Msg("DocumentMessage", "NudgeSelectedLayers", "(-10., 10.)")),
    Entry(KeyDown("KeyArrowDown"), {"KeyShift", "KeyArrowRight"}, Msg("DocumentMessage", "NudgeSelectedLayers", "(10., 10.)")),
    Entry(KeyDown("KeyArrowDown"), {"KeyShift"}, Msg("DocumentMessage", "NudgeSelectedLayers", "(0., 10.)")),
    Entry(KeyDown("KeyArrowLeft"), {"KeyShift", "KeyArrowUp"}, Msg("DocumentMessage", "NudgeSelectedLayers", "(-10., -10.)")),
    Entry(KeyDown("KeyArrowLeft"), {"KeyShift", "KeyArrowDown"}, Msg("DocumentMessage", "NudgeSelectedLayers", "(-10., 10.)")),
    Entry(KeyDown("KeyArrowLeft"), {"KeyShift"}, Msg("DocumentMessage", "NudgeSelectedLayers", "(-10., 0.)")),
    Entry(KeyDown("KeyArrowRight"), {"KeyShift", "KeyArrowUp"}, Msg("DocumentMessage", "NudgeSelectedLayers", "(10., -10.)")),
    Entry(KeyDown("KeyArrowRight"), {"KeyShift", "KeyArrowDown"}, Msg("DocumentMessage", "NudgeSelectedLayers", "(10., 10.)")),
    Entry(KeyDown("KeyArrowRight"), {"KeyShift"}, Msg("DocumentMessage", "NudgeSelectedLayers", "(10., 0.)")),
    Entry(KeyDown("KeyArrowUp"), {"KeyArrowLeft"}, Msg("DocumentMessage", "NudgeSelectedLayers", "(-1., -1.)")),
    Entry(KeyDown("KeyArrowUp"), {"KeyArrowRight"}, Msg("DocumentMessage", "NudgeSelectedLayers", "(1., -1.)")),
    Entry(KeyDown("KeyArrowUp"), {}, Msg("DocumentMessage", "NudgeSelectedLayers", "(0., -1.)")),
    Entry(KeyDown("KeyArrowDown"), {"KeyArrowLeft"}, Msg("DocumentMessage", "NudgeSelectedLayers", "(-1., 1.)")),
    Entry(KeyDown("KeyArrowDown"), {"KeyArrowRight"}, Msg("DocumentMessage", "NudgeSelectedLayers", "(1., 1.)")),
    Entry(KeyDown("KeyArrowDown"), {}, Msg("DocumentMessage", "NudgeSelectedLayers", "(0., 1.)")),
    Entry(KeyDown("KeyArrowLeft"), {"KeyArrowUp"}, Msg("DocumentMessage", "NudgeSelectedLayers", "(-1., -1.)")),
    Entry(KeyDown("KeyArrowLeft"), {"KeyArrowDown"}, Msg("DocumentMessage", "NudgeSelectedLayers", "(-1., 1.)")),
    Entry(KeyDown("KeyArrowLeft"), {}, Msg("DocumentMessage", "NudgeSelectedLayers", "(-1., 0.)")),
    Entry(KeyDown("KeyArrowRight"), {"KeyArrowUp"}, Msg("DocumentMessage", "NudgeSelectedLayers", "(1., -1.)")),
    Entry(KeyDown("KeyArrowRight"), {"KeyArrowDown"}, Msg("DocumentMessage", "NudgeSelectedLayers", "(1., 1.)")),
    Entry(KeyDown("KeyArrowRight"), {}, Msg("DocumentMessage", "NudgeSelectedLayers", "(1., 0.)")),
    Entry(KeyDown("KeyRightCurlyBracket"), {"KeyControl"}, Msg("DocumentMessage", "ReorderSelectedLayers", "(i32::MAX)")),
    Entry(KeyDown("KeyRightBracket"), {"KeyControl"}, Msg("DocumentMessage", "ReorderSelectedLayers", "(1)")),
    Entry(KeyDown("KeyLeftBracket"), {"KeyControl"}, Msg("DocumentMessage", "ReorderSelectedLayers", "(-1)")),
    Entry(KeyDown("KeyLeftCurlyBracket"), {"KeyControl"}, Msg("DocumentMessage", "ReorderSelectedLayers", "(i32::MIN)")),
    Entry(KeyDown("Key1"), {}, Msg("GlobalMessage", "LogInfo", "")),
    Entry(KeyDown("Key2"), {}, Msg("GlobalMessage", "LogDebug", "")),
    Entry(KeyDown("Key3"), {}, Msg("GlobalMessage", "LogTrace", ""))
>>

-----------------------------------------------------------------------------
(* Mapping::default: group the declared bindings by trigger (mapping!),    *)
(* then sort every list by descending modifier count (sort_by is stable).  *)

\* mapping!: the entries pushed onto the list of one trigger, in declaration order
pushed(trigger) == SelectSeq(Declared, LAMBDA e : e.trigger = trigger)

\* the closure's comparator: v.modifiers.ones().cmp(&u.modifiers.ones())
sort_cmp(u, v) ==
    IF ones(v.modifiers) < ones(u.modifiers) THEN "Less"
    ELSE IF ones(v.modifiers) = ones(u.modifiers) THEN "Equal"
    ELSE "Greater"

RECURSIVE insert_before_equal(_, _)
\* an unstable insertion: e overtakes the elements it compares Equal to
insert_before_equal(sorted, e) ==
    IF sorted = <<>> THEN <<e>>
    ELSE IF sort_cmp(e, Head(sorted)) # "Greater" THEN <<e>> \o sorted
    ELSE <<Head(sorted)>> \o insert_before_equal(Tail(sorted), e)

RECURSIVE insert(_, _)
\* e is placed before the first element it compares Less than
insert(sorted, e) ==
    IF sorted = <<>> THEN <<e>>
    ELSE IF sort_cmp(e, Head(sorted)) = "Less" THEN <<e>> \o sorted
    ELSE <<Head(sorted)>> \o insert(Tail(sorted), e)

RECURSIVE sort_from(_, _, _)
sort_from(list, i, sorted) ==
    IF i > Len(list) THEN sorted ELSE sort_from(list, i + 1, insert(sorted, list[i]))

\* the lists left as grouped, the sort forgotten
sort_forgotten(list) == list

\* list.0.sort_by(..): a stable sort
sort(list) == sort_from(list, 1, <<>>)

MappingDefault ==
    [ key_up       |-> [k \in Keys |-> sort(pushed(KeyUp(k)))],
      key_down     |-> [k \in Keys |-> sort(pushed(KeyDown(k)))],
      pointer_move |-> sort(pushed(PointerMove)),
      mouse_scroll |-> sort(pushed(MouseScroll)) ]

-----------------------------------------------------------------------------
(* Dispatch.                                                               *)

\* the live keys compared with the required ones for equality
all_required_equal(held, modifiers) == held = modifiers

\* ((*keys & entry.modifiers) ^ entry.modifiers).is_empty()
all_required_modifiers_pressed(held, modifiers) ==
    is_empty(BitXor(BitAnd(held, modifiers), modifiers))

\* actions.iter().flatten().any(|action| discriminant == *action)
advertised(list, discriminant) ==
    \E g \in 1..Len(list) : \E i \in 1..Len(list[g]) : list[g][i] = discriminant

RECURSIVE match_from_either(_, _, _, _)
\* the loop with || in place of &&
match_from_either(entries, i, held, list) ==
    IF i > Len(entries) THEN None
    ELSE IF \/ all_required_modifiers_pressed(held, entries[i].modifiers)
            \/ advertised(list, to_discriminant(entries[i].action))
         THEN Some(entries[i].action)
         ELSE match_from_either(entries, i + 1, held, list)

RECURSIVE match_from(_, _, _, _)
\* the for loop of match_mapping, from entry i on
match_from(entries, i, held, list) ==
    IF i > Len(entries) THEN None
    ELSE IF /\ all_required_modifiers_pressed(held, entries[i].modifiers)
            /\ advertised(list, to_discriminant(entries[i].action))
         THEN Some(entries[i].action)
         ELSE match_from(entries, i + 1, held, list)

RECURSIVE match_last_from(_, _, _, _)
match_last_from(entries, i, held, list) ==
    IF i < 1 THEN None
    ELSE IF /\ all_required_modifiers_pressed(held, entries[i].modifiers)
            /\ advertised(list, to_discriminant(entries[i].action))
         THEN Some(entries[i].action)
         ELSE match_last_from(entries, i - 1, held, list)

\* the scan run from the back of the list
match_mapping_last(entries, held, list) == match_last_from(entries, Len(entries), held, list)

match_mapping(entries, held, list) == match_from(entries, 1, held, list)

\* the list match_message picks for an event
list_of(m, msg) ==
    CASE msg.kind = "KeyDown"     -> m.key_down[msg.key]
      [] msg.kind = "KeyUp"       -> m.key_up[msg.key]
      [] msg.kind = "PointerMove" -> m.pointer_move
      [] msg.kind = "MouseScroll" -> m.mouse_scroll

match_message(m, msg, held, list) == match_mapping(list_of(m, msg), held, list)

\* the message put at the front of the queue
push_front(queue, m) == <<m>> \o queue

\* responses.push_back(message)
push_back(queue, m) == Append(queue, m)

-----------------------------------------------------------------------------
(* The events the dispatcher is checked on.                                *)

NotCalled == [tag |-> "NotCalled"]

Triggers == {KeyDown(k) : k \in Keys} \cup {KeyUp(k) : k \in Keys} \cup {PointerMove, MouseScroll}

\* the keys some binding requires as a modifier, and one that none requires
HeldKeys == UNION {Declared[i].modifiers : i \in 1..Len(Declared)} \cup {"Lmb"}

LiveKeyStates == {s \in SUBSET HeldKeys : Cardinality(s) <= MaxHeld}

\* the message enums, one advertising handler each, in declaration order
Handlers == <<"DocumentsMessage", "MovementMessage", "SelectMessage", "EyedropperMessage",
              "RectangleMessage", "EllipseMessage", "ShapeMessage", "LineMessage",
              "PenMessage", "FillMessage", "ToolMessage", "FrontendMessage",
              "DocumentMessage", "GlobalMessage">>

\* discriminants no binding of a trigger carries all behave alike in match_mapping,
\* which only compares them with the entries' discriminants: this one stands for them
OtherDiscriminants == {<<"ToolMessage", "UpdateHints">>}

bound_on(trigger) ==
    {to_discriminant(Declared[i].action) : i \in {j \in 1..Len(Declared) : Declared[j].trigger = trigger}}

\* the discriminant of every declared binding, then one that no binding carries
AllDiscriminants ==
    [i \in 1..Len(Declared) |-> to_discriminant(Declared[i].action)]
        \o <<<<"ToolMessage", "UpdateHints">>>>

\* every discriminant of the model once, in declaration order
Discriminants ==
    LET first == SelectSeq([i \in 1..Len(AllDiscriminants) |-> i],
                           LAMBDA i : \A j \in 1..(i - 1) : AllDiscriminants[j] # AllDiscriminants[i])
    IN  [n \in 1..Len(first) |-> AllDiscriminants[first[n]]]

\* the group one handler advertises: discriminants of its own message enum
group_of(handler, S) == SelectSeq(Discriminants, LAMBDA d : d[1] = handler /\ d \in S)

\* the ActionList advertising exactly S: the dispatcher's own empty group
\* (advertise_actions!()), then one group per handler that advertises something
action_list(S) ==
    <<<<>>>> \o SelectSeq([h \in 1..Len(Handlers) |-> group_of(Handlers[h], S)],
                          LAMBDA g : g # <<>>)

Advertisements(trigger) ==
    {action_list(S) : S \in {T \in SUBSET (bound_on(trigger) \cup OtherDiscriminants) :
                                Cardinality(T) <= MaxAdv}}

\* a message some other handler left in the queue before the event
PriorMessage == Msg("ToolMessage", "UpdateHints", "")

\* LayerDataType: the variant and what it holds
Folder(v) == [tag |-> "Folder", value |-> v]
Shape(v) == [tag |-> "Shape", value |-> v]
Text(v) == [tag |-> "Text", value |-> v]

\* glam::DAffine2 by its six columns: the identity and a translation
IDENTITY == <<1, 0, 0, 1, 0, 0>>
Translated == <<1, 0, 0, 1, 2, -1>>

\* Layer::new(data, transform): visible, nothing cached, the cache dirty
Layer_new(data, transform) ==
    [visible |-> TRUE, name |-> None, data |-> data, transform |-> transform,
     cache |-> "", thumbnail_cache |-> "", cache_dirty |-> TRUE,
     blend_mode |-> "Normal", opacity |-> 1]

LayerDefault == Layer_new(Folder("layers"), IDENTITY)

\* RectangleToolData::default(): no drag started, no layer path
ToolDefault == [drag_start |-> <<0, 0>>, path |-> None]
\* the input context before any call
InputDefault == [mouse |-> <<0, 0>>]

-----------------------------------------------------------------------------
(* InputMapper::process_action on one event, possibly repeated.            *)

InitMatch ==
    /\ mapping = MappingDefault
    /\ message \in Triggers
    /\ keys \in LiveKeyStates
    /\ required = {}
    /\ actions \in Advertisements(message)
    /\ responses = <<PriorMessage>>
    /\ ret = NotCalled
    /\ fsm_state = "Ready"
    /\ tool_data = ToolDefault
    /\ action = NotCalled
    /\ input = InputDefault
    /\ prior_state = "Ready"
    /\ layer = LayerDefault
    /\ call = "none"
    /\ invoked = <<>>
    /\ transforms = <<>>

InputMapper_process_action ==
    /\ Len(responses) < MaxQueue
    /\ ret' = match_message(mapping, message, keys, actions)
    /\ responses' = IF ret'.tag = "Some" THEN push_back(responses, ret'.value) ELSE responses
    /\ UNCHANGED <<mapping, message, keys, required, actions, fsm_state, tool_data, action, input, prior_state, layer, call, invoked, transforms>>

NextMatch == InputMapper_process_action

SpecMatch == InitMatch /\ [][NextMatch]_vars

-----------------------------------------------------------------------------
(* The modifier test of match_mapping on its own, on every pair of key     *)
(* states, in an editor whose table has been built.                        *)

\* mapping!: the lists as grouped, before the sort
Grouped == [t \in Triggers |-> pushed(t)]

InitModifiers ==
    /\ mapping = MappingDefault
    /\ message = PointerMove
    /\ keys \in LiveKeyStates
    /\ required \in LiveKeyStates
    /\ actions = <<>>
    /\ responses = <<>>
    /\ ret = NotCalled
    /\ fsm_state = "Ready"
    /\ tool_data = ToolDefault
    /\ action = NotCalled
    /\ input = InputDefault
    /\ prior_state = "Ready"
    /\ layer = LayerDefault
    /\ call = "none"
    /\ invoked = <<>>
    /\ transforms = <<>>

TestModifiers ==
    /\ ret' = Some(all_required_modifiers_pressed(keys, required))
    /\ UNCHANGED <<mapping, message, keys, required, actions, responses, fsm_state, tool_data, action, input, prior_state, layer, call, invoked, transforms>>

NextModifiers == TestModifiers

SpecModifiers == InitModifiers /\ [][NextModifiers]_vars

-----------------------------------------------------------------------------
(* Properties of the dispatcher, under SpecMatch.                          *)

\* the discriminants that appear in some group of the advertisement
Flattened(list) == UNION {{list[g][i] : i \in 1..Len(list[g])} : g \in 1..Len(list)}

\* the list of the event's trigger
Bindings == list_of(mapping, message)

\* binding i has every required modifier held
Held(i) == Bindings[i].modifiers \subseteq keys

\* binding i has its action advertised
Advertised(i) == to_discriminant(Bindings[i].action) \in Flattened(actions)

Eligible == {i \in 1..Len(Bindings) : Held(i) /\ Advertised(i)}

\* C1 (gating): a returned message has a discriminant that some group of the
\* advertisement holds, and no binding whose modifiers are all held but whose
\* discriminant is not advertised is the one returned.
Gating ==
    ret.tag = "Some" =>
        /\ to_discriminant(ret.value) \in Flattened(actions)
        /\ responses[Len(responses)] = ret.value
        /\ \A i \in 1..Len(Bindings) : Held(i) /\ ~Advertised(i) => ret.value # Bindings[i].action

\* an unadvertised binding with its modifiers held stands first, another one fired
GatingWitness ==
    /\ ret.tag = "Some"
    /\ Held(1) /\ ~Advertised(1)
    /\ responses = <<PriorMessage, ret.value>>

\* C2 (priority): of the eligible bindings of the trigger the one returned
\* requires as many modifiers as any eligible binding does.
PriorityOrdering ==
    ret # NotCalled /\ Eligible # {} =>
        /\ ret.tag = "Some"
        /\ \E i \in Eligible :
              /\ Bindings[i].action = ret.value
              /\ \A j \in Eligible : ones(Bindings[j].modifiers) <= ones(Bindings[i].modifiers)

\* KeyDown(KeyE) with KeyControl held, SelectTool and ExportDocument both advertised
PriorityOrderingWitness ==
    /\ message = KeyDown("KeyE")
    /\ "KeyControl" \in keys
    /\ Flattened(actions) = {<<"ToolMessage", "SelectTool">>, <<"DocumentMessage", "ExportDocument">>}
    /\ ret = Some(Msg("DocumentMessage", "ExportDocument", ""))

\* C3 (modifier subset): the test of match_mapping holds exactly when every
\* required key is live, and a live key that is not required does not change it.
ModifierSubset ==
    ret.tag = "Some" =>
        /\ ret.value <=> (\A k \in required : k \in keys)
        /\ \A extra \in SUBSET (HeldKeys \ required) :
              /\ all_required_modifiers_pressed(keys \cup extra, required) = ret.value
              /\ all_required_modifiers_pressed(keys \ extra, required) = ret.value
        /\ required = {"KeyShift", "KeyAlt"} /\ keys = {"KeyShift"} => ret.value = FALSE

\* required = {Shift}, live = {Shift, Alt}: the test has answered true
ModifierSubsetWitness ==
    /\ required = {"KeyShift"}
    /\ keys = {"KeyShift", "KeyAlt"}
    /\ ret = Some(TRUE)

\* C4 (one message per event): a call of InputMapper::process_action appends
\* exactly one message, the action of an eligible binding, when a binding is
\* eligible, keeping what the queue held in place, and leaves the queue as it was
\* when none is.
AtMostOneMessage ==
    [][ IF Eligible # {}
        THEN /\ Len(responses') = Len(responses) + 1
             /\ SubSeq(responses', 1, Len(responses)) = responses
             /\ \E i \in Eligible : responses'[Len(responses')] = Bindings[i].action
        ELSE responses' = responses ]_vars

\* two calls on the same event: the queue's first message kept, one added per call
AtMostOneMessageWitness ==
    /\ ret.tag = "Some"
    /\ responses = <<PriorMessage, ret.value, ret.value>>

\* C5 (first match): the message returned is the action of the first binding in
\* list order that is eligible, every earlier one is not; nothing is returned
\* only when no binding is eligible.
FirstMatch ==
    ret # NotCalled =>
        IF Eligible = {} THEN ret = None
        ELSE LET first == CHOOSE i \in Eligible : \A j \in Eligible : i <= j
             IN  ret = Some(Bindings[first].action)

\* the first binding is not eligible, two later ones with different actions are
FirstMatchWitness ==
    /\ ret.tag = "Some"
    /\ 1 \notin Eligible
    /\ \E i, j \in Eligible : i < j /\ Bindings[i].action = ret.value /\ Bindings[j].action # ret.value

\* the bindings of a list that require n modifiers, in list order
Requiring(list, n) == SelectSeq(list, LAMBDA e : ones(e.modifiers) = n)

\* C6 (table order): every list of the table is in non-increasing order of
\* modifier count, and its bindings of equal count are in declaration order.
TableOrder ==
    /\ \A t \in Triggers :
          LET list == list_of(mapping, t) IN
          /\ \A i, j \in 1..Len(list) :
                i < j => ones(list[i].modifiers) >= ones(list[j].modifiers)
          /\ \A n \in 0..Cardinality(HeldKeys) : Requiring(list, n) = Requiring(Grouped[t], n)
    /\ mapping.mouse_scroll[1].action.variant = "WheelCanvasZoom"
    /\ mapping.mouse_scroll[2].action = Msg("MovementMessage", "WheelCanvasTranslate", "{use_y_as_x: true}")
    /\ [i \in 1..4 |-> mapping.key_down["KeyShift"][i].action.enum]
          = <<"MovementMessage", "RectangleMessage", "EllipseMessage", "ShapeMessage">>

\* the sort moved ExportDocument [KeyControl] ahead of SelectTool(Ellipse), which
\* was declared first, and kept the three Resize bindings of KeyShift in order
TableOrderWitness ==
    /\ pushed(KeyDown("KeyE"))[1].action.variant = "SelectTool"
    /\ mapping.key_down["KeyE"][1].action.variant = "ExportDocument"
    /\ mapping.key_down["KeyE"][2].action.variant = "SelectTool"
    /\ Len(mapping.key_down["KeyShift"]) = 5

-----------------------------------------------------------------------------
(* The rectangle tool.                                                     *)

\* crate::consts::DRAG_THRESHOLD
DRAG_THRESHOLD == 1

\* mouse positions, along the x axis
Positions == {<<x, 0>> : x \in 0..MaxCoord}

\* a comparison that leaves the limit itself out
distance_below(a, b, limit) ==
    (a[1] - b[1]) * (a[1] - b[1]) + (a[2] - b[2]) * (a[2] - b[2]) < limit * limit

\* DVec2::distance(a, b) <= limit, on the squares
distance_within(a, b, limit) ==
    (a[1] - b[1]) * (a[1] - b[1]) + (a[2] - b[2]) * (a[2] - b[2]) <= limit * limit

UpdateHints == Msg("ToolMessage", "UpdateHints", "")
UpdateCursor == Msg("ToolMessage", "UpdateCursor", "")
Abort == Msg("RectangleMessage", "Abort", "")
DragStart == Msg("RectangleMessage", "DragStart", "")
DragStop == Msg("RectangleMessage", "DragStop", "")
Resize == Msg("RectangleMessage", "Resize", "{center: KeyAlt, lock_ratio: KeyShift}")

\* the ToolMessages handed to the tool: its own, the two control messages, and
\* two that are not Rectangle messages
ToolMessages ==
    {UpdateHints, UpdateCursor, Abort, DragStart, DragStop, Resize,
     Msg("EllipseMessage", "DragStart", ""), Msg("ToolMessage", "SwapColors", "")}

StartTransaction == Msg("DocumentMessage", "StartTransaction", "")
DeselectAllLayers == Msg("DocumentMessage", "DeselectAllLayers", "")
AbortTransaction == Msg("DocumentMessage", "AbortTransaction", "")
CommitTransaction == Msg("DocumentMessage", "CommitTransaction", "")

\* Operation::AddRect { path, insert_index: -1, transform: ZERO, style: solid(primary) }
AddRect(path) ==
    [enum |-> "Operation", variant |-> "AddRect", path |-> path, insert_index |-> -1,
     transform |-> <<0, 0, 0, 0, 0, 0>>, style |-> "Fill::solid(primary_color)"]

\* document.get_path_for_new_layer()
get_path_for_new_layer == <<1>>

\* what the snapping of the shared Resize data may leave in the queue
Overlays == Msg("DocumentMessage", "Overlays", "")

\* the snap manager pushes an overlay message or none
snap(queue, overlay) == IF overlay THEN push_back(queue, Overlays) ELSE queue

\* a call made on the tool data, and how long the queue was when it was made
Invocation(op, queue) == [op |-> op, at |-> Len(queue)]

\* Resize::start: the drag origin is taken from the mouse position
Resize_start(data, queue, mouse, overlay) ==
    [data |-> [data EXCEPT !.drag_start = mouse], responses |-> snap(queue, overlay),
     invoked |-> <<Invocation("start", queue)>>]

\* Resize::calculate_transform: a transform message for the layer in progress, if any
Resize_calculate_transform(data, queue, mouse, overlay) ==
    IF data.path.tag = "Some"
    THEN [ret |-> Some([enum |-> "Operation", variant |-> "SetLayerTransformInViewport",
                        path |-> data.path.value, start |-> data.drag_start, stop |-> mouse]),
          responses |-> snap(queue, overlay),
          invoked |-> <<Invocation("calculate_transform", queue)>>]
    ELSE [ret |-> None, responses |-> queue,
          invoked |-> <<Invocation("calculate_transform", queue)>>]

\* Resize::cleanup: the snapping is ended and the path dropped
Resize_cleanup(data, queue, overlay) ==
    [data |-> [data EXCEPT !.path = None], responses |-> snap(queue, overlay),
     invoked |-> <<Invocation("cleanup", queue)>>]

HintInfo(key_groups, mouse, label, plus) ==
    [key_groups |-> key_groups, mouse |-> mouse, label |-> label, plus |-> plus]

\* the hint_data of update_hints
hint_data(self) ==
    IF self = "Ready"
    THEN << << HintInfo(<<>>, Some("LmbDrag"), "Draw Rectangle", FALSE),
               HintInfo(<< <<"KeyShift">> >>, None, "Constrain Square", TRUE),
               HintInfo(<< <<"KeyAlt">> >>, None, "From Center", TRUE) >> >>
    ELSE << << HintInfo(<< <<"KeyShift">> >>, None, "Constrain Square", FALSE),
               HintInfo(<< <<"KeyAlt">> >>, None, "From Center", FALSE) >> >>

UpdateInputHints(data) ==
    [enum |-> "FrontendMessage", variant |-> "UpdateInputHints", hint_data |-> data]

UpdateMouseCursor(cursor) ==
    [enum |-> "FrontendMessage", variant |-> "UpdateMouseCursor", cursor |-> cursor]

\* the hints of the Ready state whatever the state is
update_hints_of_ready(self, queue) == push_back(queue, UpdateInputHints(hint_data("Ready")))

update_hints(self, queue) == push_back(queue, UpdateInputHints(hint_data(self)))

update_cursor(self, queue) == push_back(queue, UpdateMouseCursor("Crosshair"))

\* the match of transition on (self, event), for a Rectangle event
transition_arms(self, event, data, inp, overlay, queue) ==
    CASE self = "Ready" /\ event.variant = "DragStart" ->
            LET started == Resize_start(data, queue, inp.mouse, overlay)
                path == get_path_for_new_layer
            IN  [state |-> "Drawing",
                 data |-> [started.data EXCEPT !.path = Some(path)],
                 responses |-> push_back(push_back(push_back(started.responses,
                                  StartTransaction), DeselectAllLayers), AddRect(path)),
                 invoked |-> started.invoked]
      [] event.variant = "Resize" ->
            LET made == Resize_calculate_transform(data, queue, inp.mouse, overlay)
            IN  [state |-> self,
                 data |-> data,
                 responses |-> IF made.ret.tag = "Some"
                               THEN push_back(made.responses, made.ret.value)
                               ELSE made.responses,
                 invoked |-> made.invoked]
      [] self = "Drawing" /\ event.variant = "DragStop" ->
            LET ended == IF distance_within(data.drag_start, inp.mouse, DRAG_THRESHOLD)
                         THEN push_back(queue, AbortTransaction)
                         ELSE push_back(queue, CommitTransaction)
                cleaned == Resize_cleanup(data, ended, overlay)
            IN  [state |-> "Ready", data |-> cleaned.data, responses |-> cleaned.responses,
                 invoked |-> cleaned.invoked]
      [] self = "Drawing" /\ event.variant = "Abort" ->
            LET cleaned == Resize_cleanup(data, push_back(queue, AbortTransaction), overlay)
            IN  [state |-> "Ready", data |-> cleaned.data, responses |-> cleaned.responses,
                 invoked |-> cleaned.invoked]
      [] OTHER -> [state |-> self, data |-> data, responses |-> queue, invoked |-> <<>>]

\* a transition whose fall-through arm goes back to Ready
transition_resetting(self, event, data, inp, overlay, queue) ==
    IF event.enum = "RectangleMessage" /\ ~(self = "Drawing" /\ event.variant = "DragStart")
    THEN transition_arms(self, event, data, inp, overlay, queue)
    ELSE [state |-> "Ready", data |-> data, responses |-> queue, invoked |-> <<>>]

\* a transition whose Abort arm leaves the tool Drawing
transition_abort_stays(self, event, data, inp, overlay, queue) ==
    IF event.enum = "RectangleMessage"
    THEN IF self = "Drawing" /\ event.variant = "Abort"
         THEN [transition_arms(self, event, data, inp, overlay, queue) EXCEPT !.state = "Drawing"]
         ELSE transition_arms(self, event, data, inp, overlay, queue)
    ELSE [state |-> self, data |-> data, responses |-> queue, invoked |-> <<>>]

\* a transition whose Resize arm also commits the transaction
transition_resize_commits(self, event, data, inp, overlay, queue) ==
    IF event.enum = "RectangleMessage"
    THEN LET new == transition_arms(self, event, data, inp, overlay, queue)
         IN  IF event.variant = "Resize"
             THEN [new EXCEPT !.responses = push_back(new.responses, CommitTransaction)]
             ELSE new
    ELSE [state |-> self, data |-> data, responses |-> queue, invoked |-> <<>>]

\* a transition whose DragStop arm commits however short the drag was
transition_always_commits(self, event, data, inp, overlay, queue) ==
    IF event.enum = "RectangleMessage"
    THEN LET new == transition_arms(self, event, data, inp, overlay, queue)
         IN  [new EXCEPT !.responses =
                 [i \in 1..Len(new.responses) |->
                     IF i > Len(queue) /\ new.responses[i] = AbortTransaction
                     THEN CommitTransaction ELSE new.responses[i]]]
    ELSE [state |-> self, data |-> data, responses |-> queue, invoked |-> <<>>]

\* a transition whose Abort arm cleans up before it aborts the transaction
transition_cleanup_first(self, event, data, inp, overlay, queue) ==
    IF event.enum = "RectangleMessage"
    THEN IF self = "Drawing" /\ event.variant = "Abort"
         THEN LET cleaned == Resize_cleanup(data, queue, overlay)
              IN  [state |-> "Ready", data |-> cleaned.data,
                   responses |-> push_back(cleaned.responses, AbortTransaction),
                   invoked |-> cleaned.invoked]
         ELSE transition_arms(self, event, data, inp, overlay, queue)
    ELSE [state |-> self, data |-> data, responses |-> queue, invoked |-> <<>>]

\* a transition that starts a new rectangle on DragStart while Drawing
transition_restarting(self, event, data, inp, overlay, queue) ==
    IF event.enum = "RectangleMessage"
    THEN IF self = "Drawing" /\ event.variant = "DragStart"
         THEN transition_arms("Ready", event, data, inp, overlay, queue)
         ELSE transition_arms(self, event, data, inp, overlay, queue)
    ELSE [state |-> self, data |-> data, responses |-> queue, invoked |-> <<>>]

\* RectangleToolFsmState::transition
\* a machine whose Ready state runs the Abort arm of Drawing
transition_ready_aborts(self, event, data, inp, overlay, queue) ==
    IF event.enum = "RectangleMessage"
    THEN IF self = "Ready" /\ event.variant = "Abort"
         THEN transition_arms("Drawing", event, data, inp, overlay, queue)
         ELSE transition_arms(self, event, data, inp, overlay, queue)
    ELSE [state |-> self, data |-> data, responses |-> queue, invoked |-> <<>>]

transition(self, event, data, inp, overlay, queue) ==
    IF event.enum = "RectangleMessage"
    THEN transition_arms(self, event, data, inp, overlay, queue)
    ELSE [state |-> self, data |-> data, responses |-> queue, invoked |-> <<>>]

\* the driver emitting hints and cursor after every transition
process_action_always_emitting(self, data, act, inp, overlay, queue) ==
    IF act = UpdateHints THEN [state |-> self, data |-> data, responses |-> update_hints(self, queue),
          invoked |-> <<>>]
    ELSE IF act = UpdateCursor THEN [state |-> self, data |-> data, responses |-> update_cursor(self, queue),
          invoked |-> <<>>]
    ELSE LET new == transition(self, act, data, inp, overlay, queue)
         IN  [state |-> new.state, data |-> new.data,
              responses |-> update_cursor(new.state, update_hints(new.state, new.responses)),
                   invoked |-> new.invoked]

\* the driver emitting the cursor before the hints
process_action_cursor_first(self, data, act, inp, overlay, queue) ==
    IF act = UpdateHints THEN [state |-> self, data |-> data, responses |-> update_hints(self, queue),
          invoked |-> <<>>]
    ELSE IF act = UpdateCursor THEN [state |-> self, data |-> data, responses |-> update_cursor(self, queue),
          invoked |-> <<>>]
    ELSE LET new == transition(self, act, data, inp, overlay, queue)
         IN  IF self # new.state
             THEN [state |-> new.state, data |-> new.data,
                   responses |-> update_hints(new.state, update_cursor(new.state, new.responses)),
                   invoked |-> new.invoked]
             ELSE new

\* RectangleTool::process_action on (fsm_state, tool_data)
process_action(self, data, act, inp, overlay, queue) ==
    IF act = UpdateHints THEN [state |-> self, data |-> data, responses |-> update_hints(self, queue),
          invoked |-> <<>>]
    ELSE IF act = UpdateCursor THEN [state |-> self, data |-> data, responses |-> update_cursor(self, queue),
          invoked |-> <<>>]
    ELSE LET new == transition(self, act, data, inp, overlay, queue)
         IN  IF self # new.state
             THEN [state |-> new.state, data |-> new.data,
                   responses |-> update_cursor(new.state, update_hints(new.state, new.responses)),
                   invoked |-> new.invoked]
             ELSE new

\* Resize advertised in both states
actions_resize_always(self) ==
    IF self = "Ready"
    THEN << << <<"RectangleMessage", "DragStart">>, <<"RectangleMessage", "Resize">> >> >>
    ELSE << << <<"RectangleMessage", "DragStop">>, <<"RectangleMessage", "Abort">>,
               <<"RectangleMessage", "Resize">> >> >>

\* RectangleTool::actions, of the state fsm_state is in
RectangleTool_actions(self) ==
    IF self = "Ready"
    THEN << << <<"RectangleMessage", "DragStart">> >> >>
    ELSE << << <<"RectangleMessage", "DragStop">>, <<"RectangleMessage", "Abort">>,
               <<"RectangleMessage", "Resize">> >> >>

-----------------------------------------------------------------------------
(* The tool driven by any ToolMessage, its queue drained by the dispatcher.*)

Init ==
    /\ mapping = MappingDefault
    /\ message = PointerMove
    /\ keys = {}
    /\ required = {}
    /\ actions = <<>>
    /\ responses = <<>>
    /\ ret = NotCalled
    /\ fsm_state = "Ready"
    /\ tool_data = ToolDefault
    /\ action = NotCalled
    /\ input = InputDefault
    /\ prior_state = "Ready"
    /\ layer = LayerDefault
    /\ call = "none"
    /\ invoked = <<>>
    /\ transforms = <<>>

RectangleTool_process_action ==
    /\ Len(responses) <= MaxPending
    /\ \E act \in ToolMessages, pos \in Positions, overlay \in BOOLEAN :
          LET done == process_action(fsm_state, tool_data, act, [mouse |-> pos], overlay, responses)
          IN  /\ action' = act
              /\ input' = [mouse |-> pos]
              /\ prior_state' = fsm_state
              /\ fsm_state' = done.state
              /\ tool_data' = done.data
              /\ responses' = done.responses
              /\ invoked' = done.invoked
    /\ UNCHANGED <<mapping, message, keys, required, actions, ret, layer, call, transforms>>

\* the message bus takes the queue's front message
Drain ==
    /\ responses # <<>>
    /\ responses' = Tail(responses)
    /\ UNCHANGED <<mapping, message, keys, required, actions, ret, fsm_state, tool_data, action, input, prior_state, layer, call, invoked, transforms>>

Next == RectangleTool_process_action \/ Drain

Spec == Init /\ [][Next]_vars

-----------------------------------------------------------------------------
(* Properties of the tool driver, under Spec.                              *)

FsmStates == {"Ready", "Drawing"}

\* a step of RectangleTool::process_action (Drain alone shortens the queue)
CallStep == Len(responses') >= Len(responses)

\* what the step put in the queue
Added == SubSeq(responses', Len(responses) + 1, Len(responses'))

\* the step left the queue's earlier messages in place
Kept == SubSeq(responses', 1, Len(responses)) = responses

IsHints(m) == to_discriminant(m) = <<"FrontendMessage", "UpdateInputHints">>
IsCursor(m) == to_discriminant(m) = <<"FrontendMessage", "UpdateMouseCursor">>

\* C7 (hints and cursor iff the state changed): a call with an action other
\* than UpdateHints and UpdateCursor appends no hint and no cursor message when
\* the state stays what it was, and exactly one of each, those of the new state,
\* when it changes.
HintsIffStateChange ==
    [][ CallStep /\ action' \notin {UpdateHints, UpdateCursor} =>
          /\ Kept
          /\ IF fsm_state' = fsm_state
             THEN \A i \in 1..Len(Added) : ~IsHints(Added[i]) /\ ~IsCursor(Added[i])
             ELSE /\ SelectSeq(Added, IsHints) = <<UpdateInputHints(hint_data(fsm_state'))>>
                  /\ SelectSeq(Added, IsCursor) = <<UpdateMouseCursor("Crosshair")>> ]_vars

\* DragStart in Ready, into an empty queue, no overlay pushed
HintsIffStateChangeWitness ==
    /\ prior_state = "Ready" /\ action = DragStart /\ fsm_state = "Drawing"
    /\ responses = <<StartTransaction, DeselectAllLayers, AddRect(<<1>>),
                     UpdateInputHints(hint_data("Drawing")), UpdateMouseCursor("Crosshair")>>

\* C8 (outbound order): in a call that changes the state, the messages of the
\* transition come first, in the order the arm pushes them, then the
\* UpdateInputHints message, then the UpdateMouseCursor message, which is last.
OutboundOrder ==
    [][ CallStep /\ fsm_state' # fsm_state =>
          LET n == Len(Added)
              own == SubSeq(Added, 1, n - 2)
              plain == SelectSeq(own, LAMBDA m : m # Overlays)
          IN  /\ Kept
              /\ n >= 3
              /\ IsHints(Added[n - 1])
              /\ IsCursor(Added[n])
              /\ \A i \in 1..Len(own) : ~IsHints(own[i]) /\ ~IsCursor(own[i])
              /\ fsm_state' = "Drawing" =>
                    plain = <<StartTransaction, DeselectAllLayers, AddRect(tool_data'.path.value)>>
              /\ fsm_state' = "Ready" =>
                    plain \in {<<AbortTransaction>>, <<CommitTransaction>>} ]_vars

\* DragStop in Drawing beyond the threshold, the cleanup pushing an overlay message
OutboundOrderWitness ==
    /\ prior_state = "Drawing" /\ action = DragStop /\ fsm_state = "Ready"
    /\ responses = <<CommitTransaction, Overlays,
                     UpdateInputHints(hint_data("Ready")), UpdateMouseCursor("Crosshair")>>

\* the pairs no arm of transition names
Unhandled(self, event) ==
    \/ event.enum # "RectangleMessage"
    \/ self = "Ready" /\ event.variant \in {"DragStop", "Abort"}
    \/ self = "Drawing" /\ event.variant = "DragStart"

\* C9 (totality): transition returns a state for every state and message, and
\* for every pair no arm names it returns the state it was given and leaves
\* the queue as it was.
Totality ==
    /\ \A self \in FsmStates, event \in ToolMessages, overlay \in BOOLEAN :
          LET new == transition(self, event, tool_data, input, overlay, responses)
          IN  /\ new.state \in FsmStates
              /\ Unhandled(self, event) => new.state = self /\ new.responses = responses
    /\ action # NotCalled /\ Unhandled(prior_state, action) => fsm_state = prior_state

\* DragStart handed to the tool while Drawing
TotalityWitness ==
    /\ prior_state = "Drawing" /\ action = DragStart /\ fsm_state = "Drawing"
    /\ tool_data.path = Some(<<1>>)
    /\ responses = <<>>

\* C10 (control messages): UpdateHints appends the one UpdateInputHints message
\* of the current state, UpdateCursor the one UpdateMouseCursor message, and
\* neither changes fsm_state or tool_data.
ControlBypass ==
    [][ /\ CallStep /\ action' = UpdateHints =>
              /\ responses' = Append(responses, UpdateInputHints(hint_data(fsm_state)))
              /\ fsm_state' = fsm_state /\ tool_data' = tool_data
        /\ CallStep /\ action' = UpdateCursor =>
              /\ responses' = Append(responses, UpdateMouseCursor("Crosshair"))
              /\ fsm_state' = fsm_state /\ tool_data' = tool_data ]_vars

\* UpdateHints while Drawing, the queue drained before
ControlBypassWitness ==
    /\ prior_state = "Drawing" /\ action = UpdateHints /\ fsm_state = "Drawing"
    /\ tool_data.path = Some(<<1>>)
    /\ responses = <<UpdateInputHints(hint_data("Drawing"))>>

\* C12 (advertisement follows state): the tool advertises exactly DragStart
\* while Ready and exactly DragStop, Abort and Resize while Drawing, so Resize is
\* advertised exactly while Drawing.
AdvertisementFollowsState ==
    LET offered == Flattened(RectangleTool_actions(fsm_state)) IN
    /\ fsm_state = "Ready" => offered = {to_discriminant(DragStart)}
    /\ fsm_state = "Drawing" =>
          offered = {to_discriminant(DragStop), to_discriminant(Abort), to_discriminant(Resize)}
    /\ to_discriminant(Resize) \in offered <=> fsm_state = "Drawing"

\* back in Ready after a gesture that ended with DragStop
AdvertisementFollowsStateWitness ==
    /\ prior_state = "Drawing" /\ action = DragStop /\ fsm_state = "Ready"
    /\ Flattened(RectangleTool_actions(fsm_state)) = {<<"RectangleMessage", "DragStart">>}

\* C14 (Ready): the tool starts in Ready and is in Ready right after it has
\* processed Abort and right after it has processed DragStop, and stays so while
\* the queue is drained.
ReadyAfterEnd ==
    /\ action = NotCalled => fsm_state = "Ready"
    /\ action \in {Abort, DragStop} => fsm_state = "Ready"

\* Abort processed while Drawing
ReadyAfterEndWitness ==
    /\ prior_state = "Drawing" /\ action = Abort /\ fsm_state = "Ready"
    /\ tool_data.path = None

IsEnd(m) == m \in {AbortTransaction, CommitTransaction}

\* C19 (no timeout): a tool that is Drawing stays Drawing through every step
\* other than the processing of DragStop or Abort, and such a step puts no
\* AbortTransaction and no CommitTransaction in the queue.
NoTimeout ==
    [][ fsm_state = "Drawing" /\ ~(CallStep /\ action' \in {DragStop, Abort}) =>
          /\ fsm_state' = "Drawing"
          /\ CallStep => \A i \in 1..Len(Added) : ~IsEnd(Added[i]) ]_vars

\* Resize processed while Drawing: still Drawing, the layer path still held
NoTimeoutWitness ==
    /\ prior_state = "Drawing" /\ action = Resize /\ fsm_state = "Drawing"
    /\ tool_data.path = Some(<<1>>)
    /\ Len(responses) >= 1 /\ responses[Len(responses)].variant = "SetLayerTransformInViewport"

IsTransaction(m) == m \in {StartTransaction, AbortTransaction, CommitTransaction}

-----------------------------------------------------------------------------
(* Input events dispatched to the rectangle tool: each event is matched    *)
(* against the advertisement of the tool's current state, and the queue is *)
(* emptied, tool messages going to the tool, before the next event.        *)

\* the keys whose events are dispatched: the rectangle tool's triggers and one
\* bound to no rectangle action
GestureKeys == {"Lmb", "Rmb", "KeyEscape", "KeyAlt", "KeyShift", "KeyM"}

GestureTriggers ==
    {KeyDown(k) : k \in GestureKeys} \cup {KeyUp(k) : k \in GestureKeys} \cup {PointerMove}

\* the modifier keys held while an event is dispatched
GestureKeyStates == {s \in SUBSET {"KeyAlt", "KeyShift"} : Cardinality(s) <= MaxHeld}

InitGesture ==
    /\ mapping = MappingDefault
    /\ message = PointerMove
    /\ keys = {}
    /\ required = {}
    /\ actions = RectangleTool_actions("Ready")
    /\ responses = <<>>
    /\ ret = NotCalled
    /\ fsm_state = "Ready"
    /\ tool_data = ToolDefault
    /\ action = NotCalled
    /\ input = InputDefault
    /\ prior_state = "Ready"
    /\ layer = LayerDefault
    /\ call = "none"
    /\ invoked = <<>>
    /\ transforms = <<>>

\* an event matched against the advertisement computed at the previous event
InputEvent_cached ==
    /\ responses = <<>>
    /\ \E trigger \in GestureTriggers, held \in GestureKeyStates, pos \in Positions :
          /\ message' = trigger
          /\ keys' = held
          /\ input' = [mouse |-> pos]
          /\ actions' = RectangleTool_actions(fsm_state)
          /\ ret' = match_message(mapping, trigger, held, actions)
          /\ responses' = IF ret'.tag = "Some" THEN push_back(responses, ret'.value) ELSE responses
    /\ UNCHANGED <<mapping, required, fsm_state, tool_data, action, prior_state, layer, call, invoked, transforms>>

\* one input event: InputMapper::process_action with the live keys and the
\* advertisement of the state the tool is in
InputEvent ==
    /\ responses = <<>>
    /\ \E trigger \in GestureTriggers, held \in GestureKeyStates, pos \in Positions :
          /\ message' = trigger
          /\ keys' = held
          /\ input' = [mouse |-> pos]
          /\ actions' = RectangleTool_actions(fsm_state)
          /\ ret' = match_message(mapping, trigger, held, actions')
          /\ responses' = IF ret'.tag = "Some" THEN push_back(responses, ret'.value) ELSE responses
    /\ UNCHANGED <<mapping, required, fsm_state, tool_data, action, prior_state, layer, call, invoked, transforms>>

IsToolMessage(m) == m.enum \in {"RectangleMessage", "ToolMessage"}

\* the message bus takes the front message: a tool message goes to
\* RectangleTool::process_action, any other to a handler outside the model
Deliver ==
    /\ responses # <<>>
    /\ IF IsToolMessage(Head(responses))
       THEN \E overlay \in BOOLEAN :
               LET done == process_action(fsm_state, tool_data, Head(responses), input,
                                          overlay, Tail(responses))
               IN  /\ action' = Head(responses)
                   /\ prior_state' = fsm_state
                   /\ fsm_state' = done.state
                   /\ tool_data' = done.data
                   /\ responses' = done.responses
                   /\ invoked' = done.invoked
       ELSE /\ responses' = Tail(responses)
            /\ UNCHANGED <<fsm_state, tool_data, action, prior_state, invoked>>
    /\ UNCHANGED <<mapping, message, keys, required, actions, ret, input, layer, call, transforms>>

NextGesture == InputEvent \/ Deliver

SpecGesture == InitGesture /\ [][NextGesture]_vars

\* the step dispatches an input event
EventStep == responses = <<>>
\* the step delivers message m to the tool
Delivers(m) == responses # <<>> /\ Head(responses) = m

\* C11 (end-to-end gesture): in Ready, KeyDown(Lmb) with no keys held dispatches
\* DragStart, whose delivery moves the tool to Drawing and enqueues the Drawing
\* hints followed by the Crosshair cursor; in Drawing, KeyUp(Lmb) dispatches
\* DragStop, whose delivery with a drag shorter than DRAG_THRESHOLD moves the tool
\* to Ready and enqueues AbortTransaction before the Ready hints.
GestureScenario ==
    [][ /\ EventStep /\ fsm_state = "Ready" /\ message' = KeyDown("Lmb") /\ keys' = {} =>
              ret' = Some(DragStart) /\ responses' = <<DragStart>>
        /\ Delivers(DragStart) /\ fsm_state = "Ready" =>
              /\ fsm_state' = "Drawing"
              /\ Len(responses') >= 2
              /\ responses'[Len(responses') - 1] = UpdateInputHints(hint_data("Drawing"))
              /\ responses'[Len(responses')] = UpdateMouseCursor("Crosshair")
        /\ EventStep /\ fsm_state = "Drawing" /\ message' = KeyUp("Lmb") =>
              ret' = Some(DragStop) /\ responses' = <<DragStop>>
        /\ Delivers(DragStop) /\ fsm_state = "Drawing"
              /\ tool_data.drag_start = input.mouse =>
              /\ fsm_state' = "Ready"
              /\ \E i, j \in 1..Len(responses') :
                    /\ i < j
                    /\ responses'[i] = AbortTransaction
                    /\ responses'[j] = UpdateInputHints(hint_data("Ready")) ]_vars

\* the whole gesture done: the button released where it was pressed, the tool
\* back in Ready, the abort ahead of the Ready hints in the queue
GestureScenarioWitness ==
    /\ message = KeyUp("Lmb") /\ action = DragStop
    /\ prior_state = "Drawing" /\ fsm_state = "Ready"
    /\ tool_data.drag_start = input.mouse
    /\ \E i, j \in 1..Len(responses) :
          /\ i < j
          /\ responses[i] = AbortTransaction
          /\ responses[j] = UpdateInputHints(hint_data("Ready"))

ResizeTriggers == {KeyDown("KeyAlt"), KeyDown("KeyShift"), KeyUp("KeyAlt"), KeyUp("KeyShift"), PointerMove}

\* C13 (composed gating): every Rectangle message delivered to the tool is
\* advertised by the state the tool is in when it is delivered; the events of
\* KeyAlt and KeyShift and PointerMove dispatch nothing while the tool is Ready
\* and Resize while it is Drawing.
ComposedGating ==
    [][ /\ (~EventStep /\ Head(responses).enum = "RectangleMessage") =>
              to_discriminant(Head(responses)) \in Flattened(RectangleTool_actions(fsm_state))
        /\ (EventStep /\ message' \in ResizeTriggers) =>
              /\ fsm_state = "Ready" => ret' = None /\ responses' = <<>>
              /\ fsm_state = "Drawing" => ret' = Some(Resize) /\ responses' = <<Resize>> ]_vars

\* KeyDown(KeyAlt) dispatched Resize while the tool was Drawing, and the tool
\* has processed it
ComposedGatingWitness ==
    /\ message = KeyDown("KeyAlt") /\ ret = Some(Resize)
    /\ action = Resize /\ prior_state = "Drawing" /\ fsm_state = "Drawing"

-----------------------------------------------------------------------------
(* The typed views of a layer: Layer::as_folder, as_folder_mut, as_text,   *)
(* as_text_mut on any layer.                                               *)

Ok(v) == [tag |-> "Ok", value |-> v]
Err(e) == [tag |-> "Err", error |-> e]

\* what a layer's data may hold
Contents == {"a", "b"}

Layers ==
    {[Layer_new(data, IDENTITY) EXCEPT !.visible = visible, !.cache = cache, !.cache_dirty = dirty] :
        data \in {Folder(v) : v \in Contents} \cup {Shape(v) : v \in Contents}
                   \cup {Text(v) : v \in Contents},
        visible \in BOOLEAN, cache \in {"", "<g>"}, dirty \in BOOLEAN}

\* a view that takes a text layer for a folder
as_folder_coercing(self) ==
    IF self.data.tag \in {"Folder", "Text"} THEN Ok(self.data.value) ELSE Err("NotAFolder")

\* Layer::as_folder
as_folder(self) ==
    IF self.data.tag = "Folder" THEN Ok(self.data.value) ELSE Err("NotAFolder")

\* Layer::as_folder_mut: the same match on &mut self.data
as_folder_mut(self) ==
    IF self.data.tag = "Folder" THEN Ok(self.data.value) ELSE Err("NotAFolder")

\* Layer::as_text
as_text(self) ==
    IF self.data.tag = "Text" THEN Ok(self.data.value) ELSE Err("NotText")

\* Layer::as_text_mut: the same match on &mut self.data
as_text_mut(self) ==
    IF self.data.tag = "Text" THEN Ok(self.data.value) ELSE Err("NotText")

InitLayer ==
    /\ mapping = MappingDefault
    /\ message = PointerMove
    /\ keys = {}
    /\ required = {}
    /\ actions = <<>>
    /\ responses = <<>>
    /\ ret = NotCalled
    /\ fsm_state = "Ready"
    /\ tool_data = ToolDefault
    /\ action = NotCalled
    /\ input = InputDefault
    /\ prior_state = "Ready"
    /\ layer \in Layers
    /\ call = "none"
    /\ invoked = <<>>
    /\ transforms = <<>>

\* the variables no Layer method touches
NotOfLayer ==
    <<mapping, message, keys, required, actions, responses, fsm_state, tool_data, action,
      input, prior_state, invoked, transforms>>

Layer_as_folder ==
    /\ call' = "as_folder"
    /\ ret' = as_folder(layer)
    /\ UNCHANGED <<layer, NotOfLayer>>

Layer_as_folder_mut ==
    /\ call' = "as_folder_mut"
    /\ ret' = as_folder_mut(layer)
    /\ UNCHANGED <<layer, NotOfLayer>>

Layer_as_text ==
    /\ call' = "as_text"
    /\ ret' = as_text(layer)
    /\ UNCHANGED <<layer, NotOfLayer>>

Layer_as_text_mut ==
    /\ call' = "as_text_mut"
    /\ ret' = as_text_mut(layer)
    /\ UNCHANGED <<layer, NotOfLayer>>

NextLayer == Layer_as_folder \/ Layer_as_folder_mut \/ Layer_as_text \/ Layer_as_text_mut

SpecLayer == InitLayer /\ [][NextLayer]_vars

\* C18 (explicit type-confusion errors): as_folder and as_folder_mut return Ok
\* with the folder exactly when the data is a Folder and Err(NotAFolder)
\* otherwise; as_text and as_text_mut return Ok with the text exactly when the
\* data is Text and Err(NotText) otherwise; a call that returns Err leaves the
\* layer as it was.
TypedViews ==
    [][ /\ call' \in {"as_folder", "as_folder_mut"} =>
              /\ layer.data.tag = "Folder" => ret' = Ok(layer.data.value)
              /\ layer.data.tag # "Folder" => ret' = Err("NotAFolder")
        /\ call' \in {"as_text", "as_text_mut"} =>
              /\ layer.data.tag = "Text" => ret' = Ok(layer.data.value)
              /\ layer.data.tag # "Text" => ret' = Err("NotText")
        /\ ret'.tag = "Err" => layer' = layer ]_vars

\* as_folder called on a text layer: NotAFolder, the text still in the layer
TypedViewsWitness ==
    /\ call = "as_folder" /\ ret = Err("NotAFolder")
    /\ layer.data = Text("a")

-----------------------------------------------------------------------------
(* InputMapper::hints on any advertisement.  The model keeps the entries   *)
(* hints writes, one (key, action) pair each, not the text they are        *)
(* rendered to.                                                            *)

\* the keys in the order of their index in the key_down array
KeyOrder == <<
    "UnknownKey", "Lmb", "Rmb", "Mmb", "KeyM", "KeyE", "KeyL", "KeyP", "KeyV", "KeyX",
    "KeyZ", "KeyY", "KeyEnter", "Key0", "Key1", "Key2", "Key3", "KeyShift",
    "KeyControl", "KeyAlt", "KeyEscape", "KeyF", "KeyI", "KeyO", "KeyA", "KeyDelete",
    "KeyBackspace", "KeyS", "KeyPlus", "KeyEquals", "KeyMinus", "KeyPageUp",
    "KeyPageDown", "KeyN", "KeyTab", "KeyW", "KeyD", "KeyC", "KeyArrowUp",
    "KeyArrowLeft", "KeyArrowRight", "KeyArrowDown", "KeyRightCurlyBracket",
    "KeyRightBracket", "KeyLeftBracket", "KeyLeftCurlyBracket"
>>

KeyIndex(key) == CHOOSE i \in 1..Len(KeyOrder) : KeyOrder[i] = key

\* an exclusion that lets every discriminant through
excluded_none(a) == FALSE

\* the discriminants the filter of hints drops
excluded(a) == a = <<"ToolMessage", "SelectTool">> \/ a[1] = "GlobalMessage"

\* actions.into_iter().flatten()
flatten(list) ==
    LET upto[g \in 0..Len(list)] == IF g = 0 THEN <<>> ELSE upto[g - 1] \o list[g]
    IN  upto[Len(list)]

\* actions.find_map(|a| (a == d).then(..)) on what is left of the iterator: the
\* discriminants up to and including the first d are consumed, all of them when
\* there is none
find_map(rest, d) ==
    LET at == {i \in 1..Len(rest) : rest[i] = d}
    IN  IF at = {}
        THEN [hit |-> None, rest |-> <<>>]
        ELSE LET i == CHOOSE n \in at : \A o \in at : n <= o
             IN  [hit |-> Some(d), rest |-> SubSeq(rest, i + 1, Len(rest))]

\* m.0.iter().find_map(..): the entries of one key in list order, each searching
\* what the searches before it left of the iterator, up to the first hit
RECURSIVE find_entry(_, _, _)
find_entry(entries, j, rest) ==
    IF j > Len(entries) THEN [hit |-> None, rest |-> rest]
    ELSE LET found == find_map(rest, to_discriminant(entries[j].action))
         IN  IF found.hit.tag = "Some" THEN found
             ELSE find_entry(entries, j + 1, found.rest)

\* a scan that writes each entry ahead of those written before
RECURSIVE scan_prepending(_, _, _, _)
scan_prepending(key_down, i, rest, output) ==
    IF i > Len(KeyOrder) THEN output
    ELSE LET found == find_entry(key_down[KeyOrder[i]], 1, rest)
         IN  IF found.hit.tag = "Some"
             THEN scan_prepending(key_down, i + 1, found.rest,
                                  <<<<KeyOrder[i], found.hit.value>>>> \o output)
             ELSE scan_prepending(key_down, i + 1, found.rest, output)

\* key_down.iter().enumerate().filter_map(..).for_each(..): the keys from index
\* i on in index order, an entry written for each key with a hit
RECURSIVE scan(_, _, _, _)
scan(key_down, i, rest, output) ==
    IF i > Len(KeyOrder) THEN output
    ELSE LET found == find_entry(key_down[KeyOrder[i]], 1, rest)
         IN  IF found.hit.tag = "Some"
             THEN scan(key_down, i + 1, found.rest,
                       Append(output, <<KeyOrder[i], found.hit.value>>))
             ELSE scan(key_down, i + 1, found.rest, output)

\* InputMapper::hints
hints(self, list) ==
    scan(self.key_down, 1, SelectSeq(flatten(list), LAMBDA d : ~excluded(d)), <<>>)

\* discriminants in an order in which the scan finds one after the other: the
\* first bindings of Lmb, Rmb and Mmb, then what KeyM is bound to, then bindings
\* that are not the first of their key, and a global one
HintBase ==
    << <<"SelectMessage", "DragStart">>, <<"SelectMessage", "Abort">>,
       to_discriminant(MappingDefault.key_down["Mmb"][1].action),
       <<"ToolMessage", "SelectTool">>, <<"RectangleMessage", "DragStart">>,
       <<"GlobalMessage", "LogInfo">>, <<"RectangleMessage", "Abort">> >>

Reversed(s) == [i \in 1..Len(s) |-> s[Len(s) + 1 - i]]

\* the discriminants of s at the positions in P, in the order of s
Picked(s, P) == SelectSeq([i \in 1..Len(s) |-> IF i \in P THEN <<s[i]>> ELSE <<>>],
                          LAMBDA e : e # <<>>)

\* every selection from HintBase in its order and in the reverse order, as an
\* ActionList: the dispatcher's own empty group, then a group of one discriminant
\* each (hints flattens the groups before anything else)
HintAdvertisements ==
    {<<<<>>>> \o Picked(base, P) : base \in {HintBase, Reversed(HintBase)},
                                  P \in SUBSET (1..Len(HintBase))}

InitHints ==
    /\ mapping = MappingDefault
    /\ message = PointerMove
    /\ keys = {}
    /\ required = {}
    /\ actions \in HintAdvertisements
    /\ responses = <<>>
    /\ ret = NotCalled
    /\ fsm_state = "Ready"
    /\ tool_data = ToolDefault
    /\ action = NotCalled
    /\ input = InputDefault
    /\ prior_state = "Ready"
    /\ layer = LayerDefault
    /\ call = "none"
    /\ invoked = <<>>
    /\ transforms = <<>>

InputMapper_hints ==
    /\ call' = "hints"
    /\ ret' = hints(mapping, actions)
    /\ UNCHANGED <<mapping, message, keys, required, actions, responses, fsm_state, tool_data,
                   action, input, prior_state, layer, invoked, transforms>>

NextHints == InputMapper_hints

SpecHints == InitHints /\ [][NextHints]_vars

\* the entries of a key's key_down list that hints may show: advertised, and not
\* excluded
Showable(key) ==
    {j \in 1..Len(mapping.key_down[key]) :
        LET d == to_discriminant(mapping.key_down[key][j].action)
        IN  d \in Flattened(actions) /\ d # <<"ToolMessage", "SelectTool">> /\ d[1] # "GlobalMessage"}

\* C15 (hint completeness per key): hints writes, for every key with a key-down
\* binding whose discriminant is advertised and not excluded, an entry naming the
\* first such binding of the key's list, whatever the modifiers and whatever was
\* matched for keys before it.
HintCompleteness ==
    call = "hints" =>
        \A key \in Keys :
            Showable(key) # {} =>
                LET first == CHOOSE j \in Showable(key) : \A o \in Showable(key) : j <= o
                IN  \E n \in 1..Len(ret) :
                        ret[n] = <<key, to_discriminant(mapping.key_down[key][first].action)>>

\* C16 (hint shape): the entries hints writes are in strictly increasing key
\* index, so no key has two entries.
HintShape ==
    call = "hints" =>
        \A i, j \in 1..Len(ret) : i < j => KeyIndex(ret[i][1]) < KeyIndex(ret[j][1])

\* entries for three keys, Lmb first
HintShapeWitness ==
    /\ call = "hints" /\ Len(ret) = 3
    /\ ret[1][1] = "Lmb" /\ ret[2][1] = "Rmb" /\ ret[3][1] = "Mmb"

\* C17 (hint exclusion): no entry hints writes names ToolMessage::SelectTool or a
\* GlobalMessage, advertised and bound or not.
HintExclusion ==
    call = "hints" =>
        \A n \in 1..Len(ret) :
            ret[n][2] # <<"ToolMessage", "SelectTool">> /\ ret[n][2][1] # "GlobalMessage"

\* SelectTool advertised right after the discriminants found for Lmb, Rmb and
\* Mmb, and bound to KeyM, the next key with a binding: KeyM gets no entry
HintExclusionWitness ==
    /\ call = "hints"
    /\ flatten(actions) = SubSeq(HintBase, 1, 4)
    /\ to_discriminant(mapping.key_down["KeyM"][1].action) = <<"ToolMessage", "SelectTool">>
    /\ Len(ret) = 3
    /\ \A n \in 1..Len(ret) : ret[n][1] # "KeyM"

-----------------------------------------------------------------------------
(* Further properties of the tool driver, under Spec.                      *)

\* the calls of cleanup among those the step's call made on the tool data
Cleanups == SelectSeq(invoked', LAMBDA c : c.op = "cleanup")

\* C21 (tool data released at gesture completion): a call that takes the tool
\* from Drawing to Ready, on DragStop or Abort, invokes cleanup exactly once,
\* right after it enqueued AbortTransaction or CommitTransaction and before the
\* Ready hints are enqueued; no other call invokes cleanup.
CleanupAtCompletion ==
    [][ CallStep =>
          IF fsm_state = "Drawing" /\ action' \in {DragStop, Abort}
          THEN /\ fsm_state' = "Ready"
               /\ Len(Cleanups) = 1
               /\ Cleanups[1].at > Len(responses)
               /\ IsEnd(responses'[Cleanups[1].at])
               /\ \E i \in 1..Len(responses') :
                     /\ i > Cleanups[1].at
                     /\ responses'[i] = UpdateInputHints(hint_data("Ready"))
               /\ \A i \in (Len(responses) + 1)..Cleanups[1].at : ~IsHints(responses'[i])
               /\ tool_data'.path = None
          ELSE Cleanups = <<>> ]_vars

\* DragStop far from the drag's start: the commit enqueued, then the cleanup,
\* which pushed an overlay message, then the Ready hints
CleanupAtCompletionWitness ==
    /\ prior_state = "Drawing" /\ action = DragStop /\ fsm_state = "Ready"
    /\ invoked = <<[op |-> "cleanup", at |-> 1]>>
    /\ Len(responses) = 4
    /\ responses[1] = CommitTransaction
    /\ responses[2] = Overlays
    /\ responses[3] = UpdateInputHints(hint_data("Ready"))

\* whether a transaction is open ("open") or not ("closed") after the messages
\* msgs from i on, given what it was before them; "broken" when a transaction is
\* started while one is open or ended while none is
RECURSIVE bracket(_, _, _)
bracket(was, msgs, i) ==
    IF i > Len(msgs) \/ was = "broken" THEN was
    ELSE IF msgs[i] = StartTransaction
         THEN bracket(IF was = "closed" THEN "open" ELSE "broken", msgs, i + 1)
    ELSE IF IsEnd(msgs[i])
         THEN bracket(IF was = "open" THEN "closed" ELSE "broken", msgs, i + 1)
    ELSE bracket(was, msgs, i + 1)

OpenIn(state) == IF state = "Drawing" THEN "open" ELSE "closed"

\* C23 (transaction bracketing): the tool starts in Ready with nothing emitted,
\* and every call emits its StartTransaction and Abort/CommitTransaction
\* messages so that, counted from "a transaction is open exactly when Drawing"
\* before the call, no transaction is started while one is open, none is ended
\* while none is open, and one is open after the call exactly when the tool is
\* then Drawing.  By induction over the calls the starts and ends of the whole
\* emitted sequence alternate, beginning with a start.
TransactionBracketing ==
    /\ fsm_state = "Ready" /\ responses = <<>>
    /\ [][ CallStep => bracket(OpenIn(fsm_state), Added, 1) = OpenIn(fsm_state') ]_vars

\* a gesture begun: the tool Drawing, its StartTransaction in the queue
TransactionBracketingWitness ==
    /\ prior_state = "Ready" /\ action = DragStart /\ fsm_state = "Drawing"
    /\ \E i \in 1..Len(responses) : responses[i] = StartTransaction
    /\ \A i \in 1..Len(responses) : ~IsEnd(responses[i])

\* the square of the distance between two positions
SquaredDistance(a, b) == (a[1] - b[1]) * (a[1] - b[1]) + (a[2] - b[2]) * (a[2] - b[2])

\* C24 (DragStop outcome): DragStop processed in Drawing enqueues exactly one
\* of AbortTransaction and CommitTransaction, and it is CommitTransaction
\* exactly when the mouse is farther than DRAG_THRESHOLD from the drag's start;
\* at exactly DRAG_THRESHOLD it is AbortTransaction.
DragStopOutcome ==
    [][ CallStep /\ fsm_state = "Drawing" /\ action' = DragStop =>
          LET ends == SelectSeq(Added, IsEnd)
              far == SquaredDistance(tool_data.drag_start, input'.mouse)
                        > DRAG_THRESHOLD * DRAG_THRESHOLD
          IN  /\ Len(ends) = 1
              /\ ends[1] = CommitTransaction <=> far
              /\ ends[1] = AbortTransaction <=> ~far ]_vars

\* the button released exactly DRAG_THRESHOLD away from where the drag began:
\* the transaction aborted
DragStopOutcomeWitness ==
    /\ prior_state = "Drawing" /\ action = DragStop /\ fsm_state = "Ready"
    /\ SquaredDistance(tool_data.drag_start, input.mouse) = DRAG_THRESHOLD * DRAG_THRESHOLD
    /\ \E i \in 1..Len(responses) : responses[i] = AbortTransaction
    /\ \A i \in 1..Len(responses) : responses[i] # CommitTransaction

\* the Rectangle messages a state does not advertise
Unadvertised(self) ==
    {m \in {DragStart, DragStop, Resize, Abort} :
        LET list == RectangleTool_actions(self)
        IN  \A g \in 1..Len(list) : \A i \in 1..Len(list[g]) :
                list[g][i] # to_discriminant(m)}

\* C25 as stated (unadvertised actions are pure no-ops): a Rectangle message
\* the state does not advertise leaves fsm_state as it was, invokes no
\* operation of the tool data and appends nothing to the queue.
UnadvertisedPureNoOp ==
    [][ CallStep /\ action' \in Unadvertised(fsm_state) =>
          fsm_state' = fsm_state /\ invoked' = <<>> /\ Added = <<>> ]_vars

\* what calculate_transform may push or return
IsOfCalculateTransform(m) ==
    m = Overlays \/ (m.enum = "Operation" /\ m.variant = "SetLayerTransformInViewport")

\* C25 (unadvertised actions): a Rectangle message the state does not
\* advertise leaves fsm_state as it was; (Ready, DragStop), (Ready, Abort) and
\* (Drawing, DragStart) invoke no operation of the tool data and append
\* nothing; (Ready, Resize) invokes calculate_transform once, on the queue as
\* it stood, invokes neither start nor cleanup, and appends only what
\* calculate_transform pushes or returns, which is nothing while no layer is
\* in progress.
UnadvertisedNoOp ==
    [][ CallStep /\ action' \in Unadvertised(fsm_state) =>
          /\ fsm_state' = fsm_state
          /\ Kept
          /\ IF action' = Resize
             THEN /\ invoked' = <<[op |-> "calculate_transform", at |-> Len(responses)]>>
                  /\ \A i \in 1..Len(Added) : IsOfCalculateTransform(Added[i])
                  /\ tool_data.path = None => Added = <<>>
             ELSE invoked' = <<>> /\ Added = <<>> ]_vars

\* Resize handed to the tool in Ready, after other messages: the state has
\* not moved, the queue has not grown, and calculate_transform has been called
UnadvertisedNoOpWitness ==
    /\ prior_state = "Ready" /\ action = Resize /\ fsm_state = "Ready"
    /\ tool_data.path = None
    /\ Len(responses) = 1
    /\ invoked = <<[op |-> "calculate_transform", at |-> 1]>>

\* C26 (monotonicity in held keys), under SpecMatch: when match_message
\* returns an action for an event, an advertisement and the live keys K, it
\* returns an action, possibly another one, for the same event and
\* advertisement and every key state that contains K.
HeldKeyMonotonicity ==
    ret.tag = "Some" =>
        \A more \in SUBSET (HeldKeys \ keys) :
            match_message(mapping, message, keys \cup more, actions).tag = "Some"

\* KeyX pressed with nothing held deletes the selected layers; with Shift
\* held as well, the more specific binding wins and the colours are swapped
HeldKeyMonotonicityWitness ==
    /\ message = KeyDown("KeyX") /\ keys = {}
    /\ ret = Some(Msg("DocumentMessage", "DeleteSelectedLayers", ""))
    /\ match_message(mapping, message, {"KeyShift"}, actions)
          = Some(Msg("ToolMessage", "SwapColors", ""))

-----------------------------------------------------------------------------
(* Layer::line_iter on a shape layer: the loop that turns the flattened    *)
(* path of the shape into line segments.                                   *)

\* kurbo::PathEl, as path.flatten hands them to the loop
MoveTo(point) == [el |-> "MoveTo", point |-> point]
LineTo(point) == [el |-> "LineTo", point |-> point]
ClosePath == [el |-> "ClosePath"]

PathPoints == {<<0, 0>>, <<1, 0>>}

PathEls == {MoveTo(pt) : pt \in PathPoints} \cup {LineTo(pt) : pt \in PathPoints} \cup {ClosePath}

\* every flattened path of up to MaxPath elements
FlattenedPaths == UNION {[1..n -> PathEls] : n \in 0..MaxPath}

\* the thread panicked
Panic(why) == [tag |-> "Panic", why |-> why]

\* point_to_vec: f64 to f32, exact on the coordinates used here
point_to_vec(point) == <<point[1], point[2]>>

\* the for loop of line_iter from element i on, with the state and the segments
\* built so far
RECURSIVE segments(_, _, _, _)
segments(vec, i, state, paths) ==
    IF i > Len(vec) THEN Ok(paths)
    ELSE LET operation == vec[i]
         IN  CASE state = None /\ operation.el = "MoveTo" ->
                     segments(vec, i + 1, Some(operation.point), paths)
               [] state # None /\ operation.el = "LineTo" ->
                     segments(vec, i + 1, Some(operation.point),
                              Append(paths, <<point_to_vec(state.value), point_to_vec(operation.point)>>))
               [] operation.el = "ClosePath" ->
                     IF paths = <<>>
                     THEN Panic("index out of bounds")
                     ELSE segments(vec, i + 1, None,
                                   Append(paths, <<paths[1][1], paths[Len(paths)][2]>>))
               [] OTHER -> Panic("unreachable")

\* Layer::line_iter, its items collected: the segments of the layer's shape
line_iter(self) ==
    IF self.data.tag = "Shape" THEN segments(self.data.value, 1, None, <<>>) ELSE Ok(<<>>)

InitLines ==
    /\ mapping = MappingDefault
    /\ message = PointerMove
    /\ keys = {}
    /\ required = {}
    /\ actions = <<>>
    /\ responses = <<>>
    /\ ret = NotCalled
    /\ fsm_state = "Ready"
    /\ tool_data = ToolDefault
    /\ action = NotCalled
    /\ input = InputDefault
    /\ prior_state = "Ready"
    /\ layer \in {Layer_new(Shape(vec), IDENTITY) : vec \in FlattenedPaths}
    /\ call = "none"
    /\ invoked = <<>>
    /\ transforms = <<>>

Layer_line_iter ==
    /\ call' = "line_iter"
    /\ ret' = line_iter(layer)
    /\ UNCHANGED <<layer, NotOfLayer>>

NextLines == Layer_line_iter

SpecLines == InitLines /\ [][NextLines]_vars

\* C22 (no panic in line_iter): for every flattened path of MoveTo, LineTo and
\* ClosePath elements the loop of line_iter runs to its end: it neither reaches
\* the unreachable! arm nor indexes an empty segment list.
LineIterNeverPanics ==
    call = "line_iter" => ret.tag # "Panic"


-----------------------------------------------------------------------------
(* Layer::render and its cache, on any layer and any transforms stack.     *)

\* ViewMode, as far as a renderer tells its values apart
ViewModes == {"Normal", "Outline"}

\* BlendMode::to_svg_style_name
to_svg_style_name(mode) ==
    CASE mode = "Normal"   -> "normal"
      [] mode = "Multiply" -> "multiply"

\* LayerData::render(&mut self, svg, transforms, view_mode) of the layer's
\* data: it writes its markup at the end of svg and hands the stack back as
\* it received it
LayerData_render(data, svg, stack, view_mode) ==
    [svg |-> svg \o "<" \o data.tag \o " " \o view_mode \o "/>",
     transforms |-> stack,
     invoked |-> <<Invocation("data.render", stack)>>]

RECURSIVE cols(_, _)
\* the columns from the i-th on, each by f.to_string(), a comma after all
\* but the sixth
cols(transform, i) ==
    IF i > Len(transform) THEN ""
    ELSE ToString(transform[i]) \o (IF i = 6 THEN "" ELSE ",") \o cols(transform, i + 1)

\* what render writes into the cache around the thumbnail
group(self, thumbnail) ==
    "<g transform=\"matrix(\n" \o cols(self.transform, 1)
        \o ")\" style=\"mix-blend-mode: " \o to_svg_style_name(self.blend_mode)
        \o "; opacity: " \o ToString(self.opacity) \o "\">" \o thumbnail \o "</g>"

\* Vec::pop
pop(stack) == IF stack = <<>> THEN stack ELSE SubSeq(stack, 1, Len(stack) - 1)

\* a render that leaves the cache marked dirty
render_staying_dirty(self, stack, view_mode) ==
    IF ~self.visible
    THEN [ret |-> "", self |-> self, transforms |-> stack, invoked |-> <<>>]
    ELSE IF self.cache_dirty
         THEN LET drawn == LayerData_render(self.data, "", Append(stack, self.transform), view_mode)
                  cache == group(self, drawn.svg)
              IN  [ret |-> cache,
                   self |-> [self EXCEPT !.thumbnail_cache = drawn.svg, !.cache = cache],
                   transforms |-> pop(drawn.transforms), invoked |-> drawn.invoked]
         ELSE [ret |-> self.cache, self |-> self, transforms |-> stack, invoked |-> <<>>]

\* Layer::render(&mut self, transforms, view_mode) -> &str
render(self, stack, view_mode) ==
    IF ~self.visible
    THEN [ret |-> "", self |-> self, transforms |-> stack, invoked |-> <<>>]
    ELSE IF self.cache_dirty
         THEN LET drawn == LayerData_render(self.data, "", Append(stack, self.transform), view_mode)
                  cache == group(self, drawn.svg)
              IN  [ret |-> cache,
                   self |-> [self EXCEPT !.thumbnail_cache = drawn.svg, !.cache = cache,
                                         !.cache_dirty = FALSE],
                   transforms |-> pop(drawn.transforms), invoked |-> drawn.invoked]
         ELSE [ret |-> self.cache, self |-> self, transforms |-> stack, invoked |-> <<>>]

\* <Layer as Clone>::clone: the copy has nothing cached and is dirty
clone(self) == [self EXCEPT !.cache = "", !.thumbnail_cache = "", !.cache_dirty = TRUE]

\* the layers render is run on, and the stacks it is handed
RenderLayers ==
    {[l EXCEPT !.transform = transform, !.blend_mode = mode] :
        l \in Layers, transform \in {IDENTITY, Translated}, mode \in {"Normal", "Multiply"}}

Stacks == {<<>>, <<Translated>>}

InitRender ==
    /\ mapping = MappingDefault
    /\ message = PointerMove
    /\ keys = {}
    /\ required = {}
    /\ actions = <<>>
    /\ responses = <<>>
    /\ ret = ""
    /\ fsm_state = "Ready"
    /\ tool_data = ToolDefault
    /\ action = NotCalled
    /\ input = InputDefault
    /\ prior_state = "Ready"
    /\ layer \in RenderLayers
    /\ call = "none"
    /\ invoked = <<>>
    /\ transforms \in Stacks

NotOfRender == <<mapping, message, keys, required, actions, responses, fsm_state,
                 tool_data, action, input, prior_state>>

Layer_render ==
    \E view_mode \in ViewModes :
        LET done == render(layer, transforms, view_mode)
        IN  /\ call' = "render"
            /\ ret' = done.ret
            /\ layer' = done.self
            /\ transforms' = done.transforms
            /\ invoked' = done.invoked
            /\ UNCHANGED NotOfRender

\* the layer replaced by its clone
Layer_clone ==
    /\ call' = "clone"
    /\ layer' = clone(layer)
    /\ invoked' = <<>>
    /\ UNCHANGED <<ret, transforms, NotOfRender>>

NextRender == Layer_render \/ Layer_clone

SpecRender == InitRender /\ [][NextRender]_vars

\* the calls render made on the layer's data
DataRenders == SelectSeq(invoked', LAMBDA c : c.op = "data.render")

\* C27 (render cache): render on an invisible layer returns the empty string
\* and leaves cache, thumbnail_cache and cache_dirty as they were; on a visible
\* layer whose cache is dirty it calls the data's render once, writes the
\* cache anew around what the data rendered, clears cache_dirty and leaves the
\* transforms stack with the contents it had; on a visible layer whose cache is
\* clean it returns the stored cache and does not call the data's render; and a
\* render that directly follows a render returns the same string.
RenderCache ==
    [][ call' = "render" =>
          /\ transforms' = transforms
          /\ ~layer.visible =>
                /\ ret' = ""
                /\ layer'.cache = layer.cache
                /\ layer'.thumbnail_cache = layer.thumbnail_cache
                /\ layer'.cache_dirty = layer.cache_dirty
                /\ DataRenders = <<>>
          /\ layer.visible /\ layer.cache_dirty =>
                /\ Len(DataRenders) = 1
                /\ DataRenders[1].at = Len(transforms) + 1
                /\ \E view_mode \in ViewModes :
                      layer'.thumbnail_cache
                          = LayerData_render(layer.data, "", transforms, view_mode).svg
                /\ layer'.cache = group(layer, layer'.thumbnail_cache)
                /\ ret' = layer'.cache
                /\ ~layer'.cache_dirty
          /\ layer.visible /\ ~layer.cache_dirty =>
                /\ ret' = layer.cache
                /\ layer' = layer
                /\ DataRenders = <<>>
          /\ call = "render" => ret' = ret ]_vars

\* a translated, visible shape layer that started dirty with a stale cache,
\* rendered twice on a stack of one transform: the second render returned the
\* cache the first one built
RenderCacheWitness ==
    /\ call = "render" /\ invoked = <<>>
    /\ layer.visible /\ ~layer.cache_dirty
    /\ layer.data = Shape("a") /\ layer.transform = Translated
    /\ transforms = <<Translated>>
    /\ ret = layer.cache
    /\ ret = group(layer, "<Shape Normal/>")

====
